---- MODULE Spec2Model ----
(***************************************************************************)
(* FINSULIUM: client-side encryption of transaction records and the        *)
(* currency-change workflow.  The model covers the zustand store           *)
(* (lib/store.ts), the transaction services (lib/services/transactions),   *)
(* the currency service (lib/services/currency.ts), the settings page and  *)
(* the currency-change dialog, onboarding, unlock and logout.              *)
(*                                                                         *)
(* Amounts are counted in cents, conversion rates in thousandths.          *)
(***************************************************************************)
EXTENDS Integers, Sequences, FiniteSets, TLC

\* ------------------------------------------------------------------ bounds
\* Number of handler runs and store responses in one behaviour that starts
\* before onboarding.  Ids, amounts and the number of batches in flight all
\* grow with the number of steps, so this bound caps them all.
MaxSteps == 7
\* The same for a behaviour that starts in an onboarded session, and the
\* number of transactions that session starts with.
MaxRebaseSteps == 8
MaxTx == 2
\* Number of calls of the service functions in one behaviour.
MaxServiceSteps == 3

\* ------------------------------------------------------------ JS values
\* A JavaScript number-or-null, as the amount field holds it.
Num(n) == [k |-> "num", v |-> n]
JSNull == [k |-> "null", v |-> 0]
JSNaN == [k |-> "nan", v |-> 0]
JSInfinity == [k |-> "inf", v |-> 0]
NegInfinity == [k |-> "ninf", v |-> 0]
\* JSON.stringify writes NaN and the infinities as null.
ToJSON(x) == IF x.k \in {"nan", "inf", "ninf"} THEN JSNull ELSE x

\* A text column that holds no value (SQL NULL / JS null).
NullText == "<null>"

Currencies == {"USD", "EUR"}
\* Amounts typed into the transaction form (cents) for a new transaction
\* and for an edited one; the form rejects amounts that are not > 0.
AmountInputs == {1999}
EditAmounts == {1500}
DescriptionInputs == {"lunch"}
\* Numbers of rows a bulk import carries.
BulkSizes == {1, 2}
\* Rates typed into the currency dialog: NaN, negative, zero, 0.92, Infinity.
RateInputs == {JSNaN, Num(0 - 5000), Num(0), Num(920), JSInfinity}

\* ------------------------------------------------------------------ keys
Passwords == {"correct-horse", "wrong-password"}
Salts == {"s1", "s2"}
RandomKeys == {"r1", "r2"}

NoKey == [origin |-> "none", secret |-> "", salt |-> ""]
NoSalt == "<null>"
NullConfig == [enabled |-> FALSE, type |-> "null"]

\* PBKDF2: the key is a function of the password and the salt.
deriveKeyFromPassword(password, salt) ==
  [origin |-> "password", secret |-> password, salt |-> salt]
\* A random AES key, named by its raw bytes.
generateRandomKey(r) == [origin |-> "random", secret |-> r, salt |-> ""]
\* Base64 of the raw key bytes, and back.
exportKey(key) == key.secret
importKey(keyString) == [origin |-> "random", secret |-> keyString, salt |-> ""]
\* Key texts typed into the unlock dialog: the exports of the random keys,
\* the base64 of 16 bytes and the base64 of 20 bytes.
KeyTexts == RandomKeys \cup {"base64-of-16-bytes", "base64-of-20-bytes"}
\* base64ToArrayBuffer: the number of bytes the text decodes to.
DecodedLength(keyString) ==
  CASE keyString \in RandomKeys -> 32
    [] keyString = "base64-of-16-bytes" -> 16
    [] OTHER -> 20
\* crypto.subtle.importKey('raw', ..., {name: 'AES-GCM'}) throws a DataError
\* unless the data is 128, 192 or 256 bits long.
ImportThrows(keyString) == DecodedLength(keyString) \notin {16, 24, 32}

\* ------------------------------------------------------------- envelope
Sensitive(amount, description, notes) ==
  [amount |-> amount, description |-> description, notes |-> notes]

\* The columns encrypted_data and iv.  The ciphertext is named by what
\* AES-GCM computed it from (key, nonce, plain) and by whether its bits are
\* still those that encrypt returned (intact); iv is the iv column.
NoEnvelope ==
  [present |-> FALSE, key |-> NoKey,
   plain |-> Sensitive(JSNull, NullText, NullText),
   nonce |-> 0, intact |-> TRUE, iv |-> 0]

encrypt_withoutDescription(data, key, iv) ==
  [present |-> TRUE, key |-> key,
   plain |-> [data EXCEPT !.amount = ToJSON(@), !.description = ""],
   nonce |-> iv, intact |-> TRUE, iv |-> iv]
encrypt_withFixedIv(data, key, iv) ==
  [present |-> TRUE, key |-> key,
   plain |-> [data EXCEPT !.amount = ToJSON(@)],
   nonce |-> 1, intact |-> TRUE, iv |-> 1]
\* AES-GCM over JSON.stringify(data) under the iv that getRandomValues
\* returned: the ciphertext is bound to the key and to the iv.
encrypt(data, key, iv) ==
  [present |-> TRUE, key |-> key,
   plain |-> [data EXCEPT !.amount = ToJSON(@)],
   nonce |-> iv, intact |-> TRUE, iv |-> iv]
CanDecrypt_ignoringTag(envelope, key) == envelope.present
\* Authenticated decryption: succeeds only under the key and the iv that
\* encrypted, and only on the bits that encrypt returned.
CanDecrypt(envelope, key) ==
  /\ envelope.present
  /\ envelope.key = key
  /\ envelope.iv = envelope.nonce
  /\ envelope.intact
decrypt(envelope, key) == envelope.plain

\* An object none of whose sensitive properties is defined.
NothingGiven ==
  Sensitive([k |-> "undef", v |-> 0], "<undefined>", "<undefined>")

\* ----------------------------------------------------------- stored rows
\* A row of the remote transactions table: nullable clear columns and the
\* envelope columns (encrypted_data and iv are written together).
Row(amount, description, notes, envelope) ==
  [amount |-> amount, description |-> description, notes |-> notes,
   envelope |-> envelope]

HasClear(row) ==
  \/ row.amount # JSNull
  \/ row.description # NullText
  \/ row.notes # NullText
HasEnvelope(row) == row.envelope.present

\* ------------------------------------------------------------- requests
\* A request sent to the remote store: the table, the verb, the row id
\* (0 when the request names none), the sensitive columns its body holds
\* in clear and whether its body holds an envelope.
Req(table, verb, id, clear, envelope) ==
  [table |-> table, verb |-> verb, id |-> id, clear |-> clear,
   envelope |-> envelope]

NoError == ""

VARIABLES
  \* zustand store (lib/store.ts)
  credentials, encryptionConfig, isOnboarded, encryptionKey, salt,
  transactions, goals, currency,
  \* localStorage entry "finsulium-storage"
  persisted,
  \* remote store
  dbTransactions, dbNextId, dbCurrency, dbGoals,
  \* the page shown: the settings page, or one of the dashboard pages
  page,
  \* settings page component state
  pendingCurrency, showCurrencyChangeDialog, loading, pageError,
  \* convert batches in flight
  batches,
  \* onboarding wizard component state
  generatedKey, keyDownloaded,
  \* the handler that ran last: its name, inputs, error and requests
  lastOp,
  \* number of ivs crypto.getRandomValues has handed out so far; the next
  \* one is a value it has not returned before
  ivsDrawn,
  \* number of steps the behaviour may still take
  stepsLeft

storeVars ==
  <<credentials, encryptionConfig, isOnboarded, encryptionKey, salt,
    transactions, currency>>
dbVars == <<dbTransactions, dbNextId, dbCurrency>>
pageVars == <<pendingCurrency, showCurrencyChangeDialog, loading, pageError>>
\* The goals in memory and in the remote store, as sets of goal ids.
goalVars == <<goals, dbGoals>>
vars ==
  <<credentials, encryptionConfig, isOnboarded, encryptionKey, salt,
    transactions, currency, persisted, dbTransactions, dbNextId, dbCurrency,
    page, pendingCurrency, showCurrencyChangeDialog, loading, pageError,
    batches, generatedKey, keyDownloaded, lastOp, ivsDrawn, goals, dbGoals,
    stepsLeft>>

NoCurrency == "<null>"
Pages == {"dashboard", "settings"}

\* ----------------------------------------------------------- persistence
PersistedFields ==
  {"credentials", "encryptionConfig", "currency", "isOnboarded", "salt"}

partialize_withKey(state) ==
  [credentials |-> state.credentials,
   encryptionConfig |-> state.encryptionConfig,
   currency |-> state.currency,
   isOnboarded |-> state.isOnboarded,
   salt |-> state.salt,
   encryptionKey |-> state.encryptionKey]

\* persist middleware: the part of the state written to localStorage.
partialize(state) ==
  [credentials |-> state.credentials,
   encryptionConfig |-> state.encryptionConfig,
   currency |-> state.currency,
   isOnboarded |-> state.isOnboarded,
   salt |-> state.salt]

\* The store state after the step, as the persist middleware sees it.
StateAfter ==
  [credentials |-> credentials',
   encryptionConfig |-> encryptionConfig',
   isOnboarded |-> isOnboarded',
   encryptionKey |-> encryptionKey',
   salt |-> salt',
   currency |-> currency']

\* Every set() of the store writes the partialized state to localStorage.
Persist == persisted' = partialize(StateAfter)

\* A convert batch: the target currency and rate, the store's transactions
\* when it started (original) and as converted, the ids whose update is
\* still unanswered, those written, those failed, and whether the page
\* instance that started it is still mounted.
Batch(newCurrency, rate, original, converted, pending, written, failed, mounted) ==
  [newCurrency |-> newCurrency, rate |-> rate, original |-> original,
   converted |-> converted, pending |-> pending, written |-> written,
   failed |-> failed, mounted |-> mounted]
NoBatch == Batch(NoCurrency, JSNull, <<>>, <<>>, {}, {}, {}, FALSE)

\* What a handler did: its name, its currency and rate inputs, the error it
\* reported (NoError for none) with the record counts the error carries
\* (<<>> for none), the requests it sent to the remote store, those of
\* them the store answered with an error, the convert batch it worked on,
\* and the key text it was given.  For a call of a service function: the
\* row id, sensitive data and key it was given, the envelope it produced
\* or was given, the envelope the call before it produced, and the data it
\* returned.
Op(name, cur, rate, err, reqs) ==
  [op |-> name, cur |-> cur, rate |-> rate, err |-> err, reqs |-> reqs,
   counts |-> <<>>, batch |-> NoBatch, failed |-> {}, text |-> "",
   id |-> 0, data |-> NothingGiven, key |-> NoKey, sealed |-> NoEnvelope,
   before |-> NoEnvelope, opened |-> NothingGiven]

InitialState ==
  [credentials |-> FALSE,
   encryptionConfig |-> NullConfig,
   isOnboarded |-> FALSE,
   encryptionKey |-> NoKey,
   salt |-> NoSalt,
   currency |-> "USD"]

Init ==
  /\ credentials = FALSE
  /\ encryptionConfig = NullConfig
  /\ isOnboarded = FALSE
  /\ encryptionKey = NoKey
  /\ salt = NoSalt
  /\ transactions = <<>>
  /\ currency = "USD"
  /\ persisted = partialize(InitialState)
  /\ dbTransactions = <<>>
  /\ dbNextId = 1
  /\ dbCurrency = "USD"
  /\ page = "dashboard"
  /\ pendingCurrency = NoCurrency
  /\ showCurrencyChangeDialog = FALSE
  /\ loading = FALSE
  /\ pageError = NoError
  /\ batches = <<>>
  /\ generatedKey = ""
  /\ keyDownloaded = FALSE
  /\ lastOp = Op("init", NoCurrency, JSNull, NoError, {})
  /\ ivsDrawn = 0
  /\ goals = {}
  /\ dbGoals = {}
  /\ stepsLeft = MaxSteps

wizardVars == <<generatedKey, keyDownloaded>>
convVars == <<batches>>

\* Every step counts against the bound.
Tick == stepsLeft > 0 /\ stepsLeft' = stepsLeft - 1

\* The settings page component is unmounted: its useState values are gone.
PageReset ==
  /\ pendingCurrency' = NoCurrency
  /\ showCurrencyChangeDialog' = FALSE
  /\ loading' = FALSE
  /\ pageError' = NoError

\* The page instance that started a batch no longer exists; its setState
\* calls have no effect on the instance mounted later.
Unmounted(bs) == [i \in DOMAIN bs |-> [bs[i] EXCEPT !.mounted = FALSE]]

\* ------------------------------------------------------------ onboarding
\* Wizard step 2, random-key mode: generate a key and show its export.
handleGenerateRandomKey ==
  /\ Tick
  /\ UNCHANGED <<ivsDrawn, goalVars>>
  /\ UNCHANGED page
  /\ ~isOnboarded
  /\ generatedKey = ""
  /\ \E r \in RandomKeys :
       generatedKey' = exportKey(generateRandomKey(r))
  /\ keyDownloaded' = FALSE
  /\ lastOp' = Op("handleGenerateRandomKey", NoCurrency, JSNull, NoError, {})
  /\ UNCHANGED <<storeVars, persisted, dbVars, pageVars, convVars>>

handleDownloadKey ==
  /\ Tick
  /\ UNCHANGED <<ivsDrawn, goalVars>>
  /\ UNCHANGED page
  /\ ~isOnboarded
  /\ generatedKey # ""
  /\ keyDownloaded' = TRUE
  /\ lastOp' = Op("handleDownloadKey", NoCurrency, JSNull, NoError, {})
  /\ UNCHANGED <<storeVars, persisted, dbVars, pageVars, convVars,
                 generatedKey>>

\* Wizard completion in master-password mode.
handleCompletePassword ==
  /\ Tick
  /\ UNCHANGED <<ivsDrawn, goalVars>>
  /\ page' = "dashboard"
  /\ ~isOnboarded
  /\ \E password \in Passwords, saltBytes \in Salts :
       /\ encryptionKey' = deriveKeyFromPassword(password, saltBytes)
       /\ salt' = saltBytes
  /\ credentials' = TRUE
  /\ encryptionConfig' = [enabled |-> TRUE, type |-> "password"]
  /\ isOnboarded' = TRUE
  /\ generatedKey' = ""
  /\ keyDownloaded' = FALSE
  /\ lastOp' = Op("handleComplete", NoCurrency, JSNull, NoError, {})
  /\ UNCHANGED <<transactions, currency, dbVars, pageVars, convVars>>
  /\ Persist

\* Wizard completion in random-key mode: refused until the key shown was
\* downloaded; the session key is generated anew.
handleCompleteRandom ==
  /\ Tick
  /\ UNCHANGED <<ivsDrawn, goalVars>>
  /\ page' = "dashboard"
  /\ ~isOnboarded
  /\ IF ~keyDownloaded
       THEN /\ credentials' = TRUE
            /\ lastOp' = Op("handleComplete", NoCurrency, JSNull,
                            "Please download your encryption key", {})
            /\ UNCHANGED <<encryptionConfig, isOnboarded, encryptionKey,
                           salt, wizardVars>>
       ELSE /\ \E r \in RandomKeys : encryptionKey' = generateRandomKey(r)
            /\ credentials' = TRUE
            /\ encryptionConfig' = [enabled |-> TRUE, type |-> "random_key"]
            /\ isOnboarded' = TRUE
            /\ generatedKey' = ""
            /\ keyDownloaded' = FALSE
            /\ lastOp' = Op("handleComplete", NoCurrency, JSNull, NoError, {})
            /\ UNCHANGED salt
  /\ UNCHANGED <<transactions, currency, dbVars, pageVars, convVars>>
  /\ Persist

\* ---------------------------------------------------------------- unlock
\* The dialog is open while encryption is enabled and no key is loaded.
UnlockIsOpen == encryptionConfig.enabled /\ encryptionKey = NoKey

handleUnlockPassword ==
  /\ Tick
  /\ UNCHANGED <<ivsDrawn, goalVars>>
  /\ UNCHANGED page
  /\ isOnboarded
  /\ UnlockIsOpen
  /\ encryptionConfig.type = "password"
  /\ \E password \in Passwords :
       IF salt = NoSalt
         THEN /\ lastOp' = Op("handleUnlock", NoCurrency, JSNull,
                              "Salt not found", {})
              /\ UNCHANGED encryptionKey
         ELSE /\ encryptionKey' = deriveKeyFromPassword(password, salt)
              /\ lastOp' = Op("handleUnlock", NoCurrency, JSNull, NoError, {})
  /\ UNCHANGED <<credentials, encryptionConfig, isOnboarded, salt,
                 transactions, currency, dbVars, pageVars, convVars,
                 wizardVars>>
  /\ Persist

UnlockFailedMessage == "Failed to unlock. Please check your credentials."

handleUnlockKey ==
  /\ Tick
  /\ UNCHANGED <<ivsDrawn, goalVars>>
  /\ UNCHANGED page
  /\ isOnboarded
  /\ UnlockIsOpen
  /\ encryptionConfig.type # "password"
  /\ \E keyString \in KeyTexts :
       IF ImportThrows(keyString)
         THEN /\ lastOp' =
                   [Op("handleUnlock", NoCurrency, JSNull, UnlockFailedMessage,
                       {})
                      EXCEPT !.text = keyString]
              /\ UNCHANGED encryptionKey
         ELSE /\ encryptionKey' = importKey(keyString)
              /\ lastOp' =
                   [Op("handleUnlock", NoCurrency, JSNull, NoError, {})
                      EXCEPT !.text = keyString]
  /\ UNCHANGED <<credentials, encryptionConfig, isOnboarded, salt,
                 transactions, currency, dbVars, pageVars, convVars,
                 wizardVars>>
  /\ Persist

\* ---------------------------------------------------------------- logout
\* clearCredentials, then the router leaves the dashboard.
handleLogout ==
  /\ Tick
  /\ UNCHANGED <<ivsDrawn, dbGoals>>
  /\ goals' = {}
  /\ page' = "dashboard"
  /\ isOnboarded
  /\ credentials' = FALSE
  /\ encryptionConfig' = NullConfig
  /\ isOnboarded' = FALSE
  /\ encryptionKey' = NoKey
  /\ salt' = NoSalt
  /\ transactions' = <<>>
  /\ PageReset
  /\ batches' = Unmounted(batches)
  /\ lastOp' = Op("handleLogout", NoCurrency, JSNull, NoError, {})
  /\ UNCHANGED <<currency, dbVars, wizardVars>>
  /\ Persist

NewSession_keepingKey ==
  /\ Tick
  /\ UNCHANGED <<ivsDrawn, dbGoals>>
  /\ goals' = {}
  /\ page' \in Pages
  /\ credentials' = persisted.credentials
  /\ encryptionConfig' = persisted.encryptionConfig
  /\ isOnboarded' = persisted.isOnboarded
  /\ salt' = persisted.salt
  /\ currency' = persisted.currency
  /\ transactions' = <<>>
  /\ PageReset
  /\ batches' = <<>>
  /\ generatedKey' = ""
  /\ keyDownloaded' = FALSE
  /\ lastOp' = Op("newSession", NoCurrency, JSNull, NoError, {})
  /\ UNCHANGED <<encryptionKey, persisted, dbVars>>

\* A page load: the store starts from its initial state and the persist
\* middleware merges the localStorage entry into it.  Everything held only
\* in memory is gone, the running handlers included.
NewSession ==
  /\ Tick
  /\ UNCHANGED <<ivsDrawn, dbGoals>>
  /\ goals' = {}
  /\ page' \in Pages
  /\ credentials' = persisted.credentials
  /\ encryptionConfig' = persisted.encryptionConfig
  /\ isOnboarded' = persisted.isOnboarded
  /\ salt' = persisted.salt
  /\ currency' = persisted.currency
  /\ encryptionKey' =
       IF "encryptionKey" \in DOMAIN persisted
         THEN persisted.encryptionKey ELSE NoKey
  /\ transactions' = <<>>
  /\ PageReset
  /\ batches' = <<>>
  /\ generatedKey' = ""
  /\ keyDownloaded' = FALSE
  /\ lastOp' = Op("newSession", NoCurrency, JSNull, NoError, {})
  /\ UNCHANGED <<persisted, dbVars>>

\* ------------------------------------------------------- finite mappings
Put(f, id, v) == [i \in DOMAIN f \cup {id} |-> IF i = id THEN v ELSE f[i]]
Remove(f, id) == [i \in DOMAIN f \ {id} |-> f[i]]

\* ------------------------------------------------------ JS value helpers
JSUndefined == [k |-> "undef", v |-> 0]
UndefText == "<undefined>"
\* x || ... : a number is truthy unless it is 0 or NaN; null and undefined
\* are falsy; a string is truthy unless it is empty.
Truthy(x) == (x.k = "num" /\ x.v # 0) \/ x.k = "inf"
TruthyText(t) == t \notin {"", NullText, UndefText}
\* a ?? b
Coalesce(a, b) == IF a.k \in {"null", "undef"} THEN b ELSE a
CoalesceText(a, b) == IF a \in {NullText, UndefText} THEN b ELSE a

\* ------------------------------------------- lib/services/transactions
\* fetchTransactions: the rows as the client holds them.  A row with an
\* envelope is decrypted when a key is given; any other row is passed on
\* as stored.
FetchThrows(rows, key) ==
  /\ key # NoKey
  /\ \E id \in DOMAIN rows :
       HasEnvelope(rows[id]) /\ ~CanDecrypt(rows[id].envelope, key)

fetchTransactions(rows, key) ==
  [id \in DOMAIN rows |->
     IF key # NoKey /\ HasEnvelope(rows[id])
       THEN decrypt(rows[id].envelope, key)
       ELSE Sensitive(rows[id].amount, rows[id].description, rows[id].notes)]

\* The number of ivs one transaction written with this key draws.
Encrypts(key) == IF key # NoKey THEN 1 ELSE 0

\* createTransaction / batchCreateTransactions: the row sent to insert.
dataToInsert(transaction, key, iv) ==
  IF key # NoKey
    THEN Row(JSNull, NullText, NullText, encrypt(transaction, key, iv))
    ELSE Row(transaction.amount, transaction.description, transaction.notes,
             NoEnvelope)

\* The sensitive columns a row-shaped request body holds in clear.
ClearColumns(row) ==
  {c \in {"amount"} : row.amount # JSNull}
    \cup {c \in {"description"} : row.description # NullText}
    \cup {c \in {"notes"} : row.notes # NullText}

InsertReq(row) ==
  Req("transactions", "insert", 0, ClearColumns(row), HasEnvelope(row))

\* updateTransaction: does the update take the re-encryption branch?
UpdateEncrypts(updates, key) ==
  /\ key # NoKey
  /\ \/ Truthy(updates.amount)
     \/ TruthyText(updates.description)
     \/ TruthyText(updates.notes)

\* The sensitive values of the current row, as the merge sees them.
currentData(current, key) ==
  IF HasEnvelope(current)
    THEN LET decrypted == decrypt(current.envelope, key)
         IN  Sensitive(Coalesce(decrypted.amount, Num(0)),
                       CoalesceText(decrypted.description, ""),
                       CoalesceText(decrypted.notes, ""))
    ELSE Sensitive(Num(0), "", "")

mergedData(updates, cur) ==
  Sensitive(Coalesce(updates.amount, cur.amount),
            CoalesceText(updates.description, cur.description),
            CoalesceText(updates.notes, cur.notes))

\* dataToUpdate: the columns the update writes and their values.
\* hasCurrent tells whether the select returned the current row.
dataToUpdate(updates, key, hasCurrent, current, iv) ==
  IF UpdateEncrypts(updates, key)
    THEN IF hasCurrent
           THEN [cols |-> {"envelope"},
                 vals |-> Row(JSNull, NullText, NullText,
                              encrypt(mergedData(updates,
                                                 currentData(current, key)),
                                      key, iv))]
           ELSE [cols |-> {},
                 vals |-> Row(JSNull, NullText, NullText, NoEnvelope)]
    ELSE [cols |-> {c \in {"amount"} : updates.amount # JSUndefined}
                     \cup {c \in {"description"} :
                             updates.description # UndefText}
                     \cup {c \in {"notes"} : updates.notes # UndefText},
          vals |-> Row(updates.amount, updates.description, updates.notes,
                       NoEnvelope)]

\* The remote store applies an update to a row: only the columns named.
ApplyUpdate(row, body) ==
  Row(IF "amount" \in body.cols THEN ToJSON(body.vals.amount) ELSE row.amount,
      IF "description" \in body.cols
        THEN body.vals.description ELSE row.description,
      IF "notes" \in body.cols THEN body.vals.notes ELSE row.notes,
      IF "envelope" \in body.cols THEN body.vals.envelope ELSE row.envelope)

UpdateReq(id, body) ==
  Req("transactions", "update", id,
      body.cols \cap {"amount", "description", "notes"},
      "envelope" \in body.cols)

SelectReq(id) == Req("transactions", "select", id, {}, FALSE)

\* ------------------------------------------------------ dashboard page
\* loadData: fetch everything and put it into the store.
loadData ==
  /\ Tick
  /\ UNCHANGED <<ivsDrawn, goalVars>>
  /\ page = "dashboard"
  /\ UNCHANGED page
  /\ isOnboarded
  /\ \E ok \in BOOLEAN :
       IF ~ok
         THEN /\ lastOp' = Op("loadData", NoCurrency, JSNull, "StoreError",
                              {SelectReq(0)})
              /\ UNCHANGED transactions
         ELSE IF FetchThrows(dbTransactions, encryptionKey)
           THEN /\ lastOp' = Op("loadData", NoCurrency, JSNull,
                                "DecryptionFailed", {SelectReq(0)})
                /\ UNCHANGED transactions
           ELSE /\ transactions' =
                     fetchTransactions(dbTransactions, encryptionKey)
                /\ lastOp' = Op("loadData", NoCurrency, JSNull, NoError,
                                {SelectReq(0)})
  /\ UNCHANGED <<credentials, encryptionConfig, isOnboarded, encryptionKey,
                 salt, currency, dbVars, pageVars, convVars, wizardVars>>
  /\ Persist

\* ---------------------------------------------------- transaction modal
\* handleSubmit of the modal, no transaction being edited: create.
handleSubmitCreate ==
  /\ Tick
  /\ UNCHANGED goalVars
  /\ page = "dashboard"
  /\ UNCHANGED page
  /\ isOnboarded
  /\ \E amount \in AmountInputs, description \in DescriptionInputs,
        ok \in BOOLEAN :
       LET transactionData == Sensitive(Num(amount), description, "")
           row == dataToInsert(transactionData, encryptionKey, ivsDrawn + 1)
       IN  /\ ivsDrawn' = ivsDrawn + Encrypts(encryptionKey)
           /\ lastOp' = Op("createTransaction", NoCurrency, JSNull,
                           IF ok THEN NoError ELSE "StoreError",
                           {InsertReq(row)})
           /\ IF ok
                THEN /\ dbTransactions' = Put(dbTransactions, dbNextId, row)
                     /\ dbNextId' = dbNextId + 1
                     /\ transactions' =
                          Put(transactions, dbNextId, transactionData)
                ELSE UNCHANGED <<dbTransactions, dbNextId, transactions>>
  /\ UNCHANGED <<credentials, encryptionConfig, isOnboarded, encryptionKey,
                 salt, currency, dbCurrency, pageVars, convVars, wizardVars>>
  /\ Persist

\* handleSubmit of the modal, editing a listed transaction: update, then
\* merge the row the store returned into the listed transaction.
handleSubmitUpdate ==
  /\ Tick
  /\ UNCHANGED goalVars
  /\ page = "dashboard"
  /\ UNCHANGED page
  /\ isOnboarded
  /\ \E id \in DOMAIN transactions, amount \in EditAmounts,
        description \in DescriptionInputs, selectOk \in BOOLEAN,
        ok \in BOOLEAN :
       LET updates == Sensitive(Num(amount), description, "")
           encrypts == UpdateEncrypts(updates, encryptionKey)
           exists == id \in DOMAIN dbTransactions
           hasCurrent == encrypts /\ selectOk /\ exists
           current == IF exists THEN dbTransactions[id]
                      ELSE Row(JSNull, NullText, NullText, NoEnvelope)
           body == dataToUpdate(updates, encryptionKey, hasCurrent, current,
                                ivsDrawn + 1)
           reqs == IF encrypts THEN {SelectReq(id)} ELSE {}
       IN  /\ ivsDrawn' =
                IF hasCurrent
                   /\ (HasEnvelope(current)
                         => CanDecrypt(current.envelope, encryptionKey))
                  THEN ivsDrawn + 1 ELSE ivsDrawn
           /\ IF hasCurrent /\ HasEnvelope(current)
              /\ ~CanDecrypt(current.envelope, encryptionKey)
             THEN /\ lastOp' = [Op("updateTransaction", NoCurrency, JSNull,
                                   "DecryptionFailed", reqs)
                                  EXCEPT !.id = id]
                  /\ UNCHANGED <<dbTransactions, transactions>>
             ELSE IF ok /\ exists
               THEN /\ dbTransactions' =
                         [dbTransactions EXCEPT ![id] = ApplyUpdate(@, body)]
                    /\ transactions' =
                         [transactions EXCEPT ![id] =
                            LET updated == dbTransactions'[id]
                            IN  Sensitive(updated.amount, updated.description,
                                          updated.notes)]
                    /\ lastOp' =
                         [Op("updateTransaction", NoCurrency, JSNull, NoError,
                             reqs \cup {UpdateReq(id, body)})
                            EXCEPT !.id = id]
               ELSE /\ lastOp' =
                         [Op("updateTransaction", NoCurrency, JSNull,
                             "StoreError", reqs \cup {UpdateReq(id, body)})
                            EXCEPT !.id = id]
                    /\ UNCHANGED <<dbTransactions, transactions>>
  /\ UNCHANGED <<credentials, encryptionConfig, isOnboarded, encryptionKey,
                 salt, currency, dbNextId, dbCurrency, pageVars, convVars,
                 wizardVars>>
  /\ Persist

\* ---------------------------------------------------- transactions page
handleConfirmDelete ==
  /\ Tick
  /\ UNCHANGED <<ivsDrawn, goalVars>>
  /\ page = "dashboard"
  /\ UNCHANGED page
  /\ isOnboarded
  /\ \E id \in DOMAIN transactions, ok \in BOOLEAN :
       /\ lastOp' = Op("deleteTransaction", NoCurrency, JSNull,
                       IF ok THEN NoError ELSE "StoreError",
                       {Req("transactions", "delete", id, {}, FALSE)})
       /\ IF ok
            THEN /\ dbTransactions' = Remove(dbTransactions, id)
                 /\ transactions' = Remove(transactions, id)
            ELSE UNCHANGED <<dbTransactions, transactions>>
  /\ UNCHANGED <<credentials, encryptionConfig, isOnboarded, encryptionKey,
                 salt, currency, dbNextId, dbCurrency, pageVars, convVars,
                 wizardVars>>
  /\ Persist

\* ----------------------------------------------------------- bulk import
KeyNotLoadedMessage ==
  "Encryption key not loaded. Please unlock your encryption first."

\* handleSubmit of the bulk import: refused while the key is not loaded,
\* else one insert request carrying all valid rows.
handleSubmitBulk ==
  /\ Tick
  /\ UNCHANGED goalVars
  /\ page = "dashboard"
  /\ UNCHANGED page
  /\ isOnboarded
  /\ IF encryptionConfig.enabled /\ encryptionKey = NoKey
       THEN /\ lastOp' = Op("bulkImport", NoCurrency, JSNull,
                            KeyNotLoadedMessage, {})
            /\ UNCHANGED <<dbTransactions, dbNextId, transactions, ivsDrawn>>
       ELSE \E n \in BulkSizes, amount \in AmountInputs,
               description \in DescriptionInputs, ok \in BOOLEAN :
              LET transactionData == Sensitive(Num(amount), description, "")
                  ids == dbNextId..(dbNextId + n - 1)
                  rows == [i \in ids |->
                             dataToInsert(transactionData, encryptionKey,
                                          ivsDrawn + 1 + (i - dbNextId))]
              IN  /\ ivsDrawn' = ivsDrawn + n * Encrypts(encryptionKey)
                  /\ lastOp' = Op("bulkImport", NoCurrency, JSNull,
                                  IF ok THEN NoError ELSE "StoreError",
                                  {InsertReq(rows[i]) : i \in ids})
                  /\ IF ok
                       THEN /\ dbTransactions' =
                                 [i \in DOMAIN dbTransactions \cup ids |->
                                    IF i \in ids THEN rows[i]
                                    ELSE dbTransactions[i]]
                            /\ dbNextId' = dbNextId + n
                            /\ transactions' =
                                 [i \in DOMAIN transactions \cup ids |->
                                    IF i \in ids THEN transactionData
                                    ELSE transactions[i]]
                       ELSE UNCHANGED <<dbTransactions, dbNextId,
                                        transactions>>
  /\ UNCHANGED <<credentials, encryptionConfig, isOnboarded, encryptionKey,
                 salt, currency, dbCurrency, pageVars, convVars, wizardVars>>
  /\ Persist

\* ------------------------------------------------ lib/services/currency
\* ToNumber for the operand of *: null is 0, undefined is NaN.
ToNumber(x) ==
  CASE x.k = "null" -> Num(0)
    [] x.k = "undef" -> JSNaN
    [] OTHER -> x
Sign(x) ==
  CASE x.k = "inf" -> 1
    [] x.k = "ninf" -> 0 - 1
    [] x.v > 0 -> 1
    [] x.v < 0 -> 0 - 1
    [] OTHER -> 0
\* n thousandths of a cent, rounded to cents, half away from zero: what
\* toFixed(2) gives for a double that is exactly n / 100000.
RoundToCents(n) ==
  IF n >= 0 THEN (n + 500) \div 1000 ELSE 0 - ((500 - n) \div 1000)
\* The (amount in cents, rate in thousandths) pairs of the inputs whose
\* exact product ends in half a cent while the double amount *
\* conversionRate lies below it: 19.99 * 0.5 is 9.99499999999999921840299,
\* 2.01 * 0.5 is 1.00499999999999989341858 (0.25 * 0.5 is 0.125 exactly).
BelowHalfAsDouble == {<<1999, 500>>, <<201, 500>>}
\* (amount * conversionRate).toFixed(2), in cents: toFixed rounds the
\* decimal expansion of the double, not that of the exact product.
toFixed(a, r) ==
  IF <<a, r>> \in BelowHalfAsDouble THEN (a * r) \div 1000
  ELSE RoundToCents(a * r)
\* Number((amount * conversionRate).toFixed(2))
convertAmount(amount, conversionRate) ==
  LET a == ToNumber(amount)
      r == conversionRate
  IN  IF a.k = "nan" \/ r.k = "nan" THEN JSNaN
      ELSE IF a.k = "num" /\ r.k = "num" THEN Num(toFixed(a.v, r.v))
      ELSE IF Sign(a) * Sign(r) > 0 THEN JSInfinity
      ELSE IF Sign(a) * Sign(r) < 0 THEN NegInfinity
      ELSE JSNaN

convertTransactionsCurrency(txs, conversionRate) ==
  [id \in DOMAIN txs |->
     [txs[id] EXCEPT !.amount = convertAmount(@, conversionRate)]]

SettingsReq == Req("user_settings", "update", 0, {}, FALSE)
AmountReq(id) == Req("transactions", "update", id, {"amount"}, FALSE)

\* updateTransactionsCurrencyInDB up to its first await: nothing to do for
\* an empty store, else one update request per transaction.
ConvertRequests(txs) == {AmountReq(id) : id \in DOMAIN txs}

\* ------------------------------------------------------- settings page
DialogOpen == pendingCurrency # NoCurrency /\ showCurrencyChangeDialog

\* handleCurrencySelection: with no transactions the code changes at once,
\* else the dialog asks.
decide(recordCount) ==
  IF recordCount = 0 THEN "immediate" ELSE "needsUserChoice"

handleCurrencySelection ==
  /\ Tick
  /\ UNCHANGED <<ivsDrawn, goalVars>>
  /\ page = "settings"
  /\ UNCHANGED page
  /\ isOnboarded
  /\ ~loading
  /\ ~DialogOpen
  /\ \E newCurrency \in Currencies :
       /\ lastOp' = Op("handleCurrencySelection", newCurrency, JSNull,
                       NoError, {})
       /\ IF newCurrency = currency
            THEN UNCHANGED <<currency, pendingCurrency,
                             showCurrencyChangeDialog>>
            ELSE IF decide(Cardinality(DOMAIN transactions)) = "immediate"
              THEN /\ currency' = newCurrency
                   /\ UNCHANGED <<pendingCurrency, showCurrencyChangeDialog>>
              ELSE /\ pendingCurrency' = newCurrency
                   /\ showCurrencyChangeDialog' = TRUE
                   /\ UNCHANGED currency
  /\ UNCHANGED <<credentials, encryptionConfig, isOnboarded, encryptionKey,
                 salt, transactions, dbVars, loading, pageError, convVars,
                 wizardVars>>
  /\ Persist

\* Cancel button of the dialog (onClose).
dialogCancel ==
  /\ Tick
  /\ UNCHANGED <<ivsDrawn, goalVars>>
  /\ page = "settings"
  /\ UNCHANGED page
  /\ isOnboarded
  /\ DialogOpen
  /\ showCurrencyChangeDialog' = FALSE
  /\ pendingCurrency' = NoCurrency
  /\ lastOp' = Op("dialogCancel", pendingCurrency, JSNull, NoError, {})
  /\ UNCHANGED <<storeVars, persisted, dbVars, loading, pageError, convVars,
                 wizardVars>>

updateCurrencyWithoutConversion_rewriting(txs, rows) ==
  [requests |-> {SettingsReq} \cup ConvertRequests(txs),
   transactions |-> convertTransactionsCurrency(txs, Num(2000)),
   rows |-> [id \in DOMAIN rows |->
               IF id \in DOMAIN txs
                 THEN [rows[id] EXCEPT
                         !.amount = convertAmount(txs[id].amount, Num(2000))]
                 ELSE rows[id]]]
\* updateCurrencyWithoutConversion: the requests it sends, and the
\* transactions (in the store and in the remote table) after it.
updateCurrencyWithoutConversion(txs, rows) ==
  [requests |-> {SettingsReq}, transactions |-> txs, rows |-> rows]

\* "Keep As Is" button: handleKeepAsIs of the dialog calls handleKeepAsIs
\* of the page and closes the dialog.
dialogKeepAsIs ==
  /\ Tick
  /\ UNCHANGED <<ivsDrawn, goalVars>>
  /\ page = "settings"
  /\ UNCHANGED page
  /\ isOnboarded
  /\ DialogOpen
  /\ \E ok \in BOOLEAN :
       LET effect == updateCurrencyWithoutConversion(transactions,
                                                      dbTransactions)
       IN  /\ transactions' = effect.transactions
           /\ dbTransactions' = effect.rows
           /\ IF ok
                THEN /\ currency' = pendingCurrency
                     /\ dbCurrency' = pendingCurrency
                     /\ pageError' = NoError
                     /\ lastOp' = Op("keepAsIs", pendingCurrency, JSNull,
                                     NoError, effect.requests)
                ELSE /\ pageError' = "Failed to update user settings"
                     /\ lastOp' =
                          [Op("keepAsIs", pendingCurrency, JSNull,
                              "Failed to update user settings",
                              effect.requests)
                             EXCEPT !.failed = {SettingsReq}]
                     /\ UNCHANGED <<currency, dbCurrency>>
  /\ showCurrencyChangeDialog' = FALSE
  /\ pendingCurrency' = NoCurrency
  /\ loading' = FALSE
  /\ UNCHANGED <<credentials, encryptionConfig, isOnboarded, encryptionKey,
                 salt, dbNextId, convVars, wizardVars>>
  /\ Persist

\* The dialog's check of the parsed rate: isNaN(rate) || rate <= 0.
RateRejected(rate) ==
  \/ rate.k = "nan"
  \/ rate.k = "ninf"
  \/ (rate.k = "num" /\ rate.v <= 0)

InvalidRateMessage == "Please enter a valid conversion rate greater than 0"

\* "Convert" button: handleConvert of the dialog checks the rate, calls
\* handleConvert of the page, which runs updateTransactionsCurrencyInDB up
\* to its first await, and closes the dialog.
dialogConvert ==
  /\ Tick
  /\ UNCHANGED <<ivsDrawn, goalVars>>
  /\ page = "settings"
  /\ UNCHANGED page
  /\ isOnboarded
  /\ DialogOpen
  /\ \E rate \in RateInputs :
       IF RateRejected(rate)
         THEN /\ lastOp' = Op("handleConvert", pendingCurrency, rate,
                              InvalidRateMessage, {})
              /\ UNCHANGED <<pageVars, convVars>>
         ELSE IF DOMAIN transactions = {}
           THEN /\ lastOp' =
                     [Op("handleConvert", pendingCurrency, rate, NoError, {})
                        EXCEPT !.batch =
                          Batch(pendingCurrency, rate, transactions,
                                transactions, {}, {}, {}, TRUE)]
                /\ showCurrencyChangeDialog' = FALSE
                /\ pendingCurrency' = NoCurrency
                /\ loading' = FALSE
                /\ pageError' = NoError
                /\ UNCHANGED convVars
           ELSE /\ LET batch ==
                         Batch(pendingCurrency, rate, transactions,
                               convertTransactionsCurrency(transactions,
                                                           rate),
                               DOMAIN transactions, {}, {}, TRUE)
                   IN  /\ batches' = Append(batches, batch)
                       /\ lastOp' =
                            [Op("handleConvert", pendingCurrency, rate,
                                NoError, ConvertRequests(transactions))
                               EXCEPT !.batch = batch]
                /\ showCurrencyChangeDialog' = FALSE
                /\ pendingCurrency' = NoCurrency
                /\ loading' = TRUE
                /\ pageError' = NoError
  /\ UNCHANGED <<storeVars, persisted, dbVars, wizardVars>>

\* The remote store answers one update request of a batch.  An accepted
\* update writes the amount column of the row, when the row still exists.
convertResponse ==
  /\ Tick
  /\ UNCHANGED <<ivsDrawn, goalVars>>
  /\ UNCHANGED page
  /\ \E b \in DOMAIN batches :
       \E id \in batches[b].pending, ok \in BOOLEAN :
         /\ batches' =
              [batches EXCEPT
                 ![b].pending = @ \ {id},
                 ![b].written = IF ok THEN @ \cup {id} ELSE @,
                 ![b].failed = IF ok THEN @ ELSE @ \cup {id}]
         /\ dbTransactions' =
              IF ok /\ id \in DOMAIN dbTransactions
                THEN [dbTransactions EXCEPT
                        ![id].amount =
                          ToJSON(batches[b].converted[id].amount)]
                ELSE dbTransactions
         /\ lastOp' = Op("convertResponse", batches[b].newCurrency,
                         batches[b].rate, NoError, {})
  /\ UNCHANGED <<storeVars, persisted, dbNextId, dbCurrency, pageVars,
                 wizardVars>>

RemoveAt(seq, i) == SubSeq(seq, 1, i - 1) \o SubSeq(seq, i + 1, Len(seq))

ConvertFailedMessage == "Failed to update transactions"

\* updateTransactionsCurrencyInDB after Promise.all, and the rest of
\* handleConvert of the page.
convertFinish ==
  /\ Tick
  /\ UNCHANGED <<ivsDrawn, goalVars>>
  /\ UNCHANGED page
  /\ \E b \in DOMAIN batches :
       LET batch == batches[b]
       IN  /\ batch.pending = {}
           /\ batches' = RemoveAt(batches, b)
           /\ IF batch.failed # {}
                THEN /\ lastOp' =
                          [Op("convertFinish", batch.newCurrency, batch.rate,
                              ConvertFailedMessage, {})
                             EXCEPT !.batch = batch,
                                    !.failed = {AmountReq(id) :
                                                  id \in batch.failed}]
                     /\ pageError' =
                          IF batch.mounted THEN ConvertFailedMessage
                          ELSE pageError
                     /\ UNCHANGED <<transactions, currency, dbCurrency,
                                    pendingCurrency>>
                ELSE /\ \E settingsOk \in BOOLEAN :
                          /\ dbCurrency' =
                               IF settingsOk THEN batch.newCurrency
                               ELSE dbCurrency
                          /\ lastOp' =
                               [Op("convertFinish", batch.newCurrency,
                                   batch.rate, NoError, {SettingsReq})
                                  EXCEPT !.batch = batch,
                                         !.failed =
                                           IF settingsOk THEN {}
                                           ELSE {SettingsReq}]
                     /\ transactions' = batch.converted
                     /\ currency' = batch.newCurrency
                     /\ pendingCurrency' =
                          IF batch.mounted THEN NoCurrency
                          ELSE pendingCurrency
                     /\ UNCHANGED pageError
           /\ loading' = IF batch.mounted THEN FALSE ELSE loading
  /\ UNCHANGED <<credentials, encryptionConfig, isOnboarded, encryptionKey,
                 salt, dbTransactions, dbNextId, showCurrencyChangeDialog,
                 wizardVars>>
  /\ Persist

\* The user opens the settings page: a new page instance.
openSettings ==
  /\ Tick
  /\ UNCHANGED <<ivsDrawn, goalVars>>
  /\ isOnboarded
  /\ page = "dashboard"
  /\ page' = "settings"
  /\ lastOp' = Op("openSettings", NoCurrency, JSNull, NoError, {})
  /\ UNCHANGED <<storeVars, persisted, dbVars, pageVars, convVars,
                 wizardVars>>

\* The user leaves the settings page: the page instance is unmounted.
leaveSettings ==
  /\ Tick
  /\ UNCHANGED <<ivsDrawn, goalVars>>
  /\ isOnboarded
  /\ page = "settings"
  /\ page' = "dashboard"
  /\ PageReset
  /\ batches' = Unmounted(batches)
  /\ lastOp' = Op("leaveSettings", NoCurrency, JSNull, NoError, {})
  /\ UNCHANGED <<storeVars, persisted, dbVars, wizardVars>>

\* wipeAllData: the two delete requests, sent together.
WipeTransactionsReq == Req("transactions", "delete", 0, {}, FALSE)
WipeGoalsReq == Req("goals", "delete", 0, {}, FALSE)

\* handleDatabaseWipe, called by the wipe dialog once the user has typed
\* the confirmation text.  wipeAllData awaits both deletions and looks at
\* neither result, so it returns normally whatever the store answered.
handleDatabaseWipe ==
  /\ Tick
  /\ UNCHANGED ivsDrawn
  /\ page = "settings"
  /\ UNCHANGED page
  /\ isOnboarded
  /\ ~loading
  /\ ~DialogOpen
  /\ \E transactionsOk \in BOOLEAN, goalsOk \in BOOLEAN :
       /\ dbTransactions' = IF transactionsOk THEN <<>> ELSE dbTransactions
       /\ dbGoals' = IF goalsOk THEN {} ELSE dbGoals
       /\ lastOp' =
            [Op("handleDatabaseWipe", NoCurrency, JSNull, NoError,
                {WipeTransactionsReq, WipeGoalsReq})
               EXCEPT !.failed =
                 {r \in {WipeTransactionsReq} : ~transactionsOk}
                   \cup {r \in {WipeGoalsReq} : ~goalsOk}]
  /\ transactions' = <<>>
  /\ goals' = {}
  /\ loading' = FALSE
  /\ pageError' = NoError
  /\ UNCHANGED <<credentials, encryptionConfig, isOnboarded, encryptionKey,
                 salt, currency, dbNextId, dbCurrency, pendingCurrency,
                 showCurrencyChangeDialog, convVars, wizardVars>>
  /\ Persist

\* ------------------------------------------------------------------ spec
Next ==
  \/ handleGenerateRandomKey
  \/ handleDownloadKey
  \/ handleCompletePassword
  \/ handleCompleteRandom
  \/ handleUnlockPassword
  \/ handleUnlockKey
  \/ handleLogout
  \/ NewSession
  \/ loadData
  \/ handleSubmitCreate
  \/ handleSubmitUpdate
  \/ handleConfirmDelete
  \/ handleSubmitBulk
  \/ handleCurrencySelection
  \/ dialogCancel
  \/ dialogKeepAsIs
  \/ dialogConvert
  \/ convertResponse
  \/ convertFinish
  \/ openSettings
  \/ leaveSettings
  \/ handleDatabaseWipe

Spec == Init /\ [][Next]_vars

\* ------------------------------------------------- the currency workflow
\* An onboarded, unlocked session that created some transactions: what
\* handleComplete and createTransaction leave behind.
SessionKeys ==
  {deriveKeyFromPassword("correct-horse", "s1"), generateRandomKey("r1")}

InitRebase ==
  \E key \in SessionKeys, n \in 0..MaxTx :
    \E amounts \in [1..n -> AmountInputs] :
      /\ credentials = TRUE
      /\ encryptionConfig =
           [enabled |-> TRUE,
            type |-> IF key.origin = "password" THEN "password"
                     ELSE "random_key"]
      /\ isOnboarded = TRUE
      /\ encryptionKey = key
      /\ salt = IF key.origin = "password" THEN key.salt ELSE NoSalt
      /\ transactions =
           [id \in 1..n |-> Sensitive(Num(amounts[id]), "lunch", "")]
      /\ currency = "USD"
      /\ persisted =
           partialize([credentials |-> credentials,
                       encryptionConfig |-> encryptionConfig,
                       isOnboarded |-> isOnboarded,
                       encryptionKey |-> encryptionKey,
                       salt |-> salt,
                       currency |-> currency])
      /\ dbTransactions =
           [id \in 1..n |-> dataToInsert(transactions[id], key, id)]
      /\ dbNextId = n + 1
      /\ dbCurrency = "USD"
      /\ page \in Pages
      /\ pendingCurrency = NoCurrency
      /\ showCurrencyChangeDialog = FALSE
      /\ loading = FALSE
      /\ pageError = NoError
      /\ batches = <<>>
      /\ generatedKey = ""
      /\ keyDownloaded = FALSE
      /\ lastOp = Op("init", NoCurrency, JSNull, NoError, {})
      /\ ivsDrawn = n
      /\ goals = {1}
      /\ dbGoals = {1}
      /\ stepsLeft = MaxRebaseSteps

NextRebase ==
  \/ NewSession
  \/ loadData
  \/ handleSubmitCreate
  \/ handleConfirmDelete
  \/ handleCurrencySelection
  \/ dialogCancel
  \/ dialogKeepAsIs
  \/ dialogConvert
  \/ convertResponse
  \/ convertFinish
  \/ openSettings
  \/ leaveSettings
  \/ handleDatabaseWipe

SpecRebase == InitRebase /\ [][NextRebase]_vars

\* ------------------------------------------------- the service functions
\* Calls of updateTransaction, encrypt and decrypt with the arguments their
\* signatures admit, in an onboarded, unlocked session that holds a record.
\* Partial<Transaction>: each sensitive property may be missing.
UpdateInputs ==
  {Sensitive(amount, description, notes) :
     amount \in {JSUndefined, Num(0), Num(1500)},
     description \in {UndefText, "", "dinner"},
     notes \in {UndefText, "memo"}}
\* Plaintexts handed to encrypt.
PlainInputs ==
  {Sensitive(amount, description, "") :
     amount \in {Num(1999), Num(0), JSNull, JSNaN},
     description \in {"lunch", "", NullText}}

InitService ==
  \E key \in SessionKeys :
    /\ credentials = TRUE
    /\ encryptionConfig =
         [enabled |-> TRUE,
          type |-> IF key.origin = "password" THEN "password"
                   ELSE "random_key"]
    /\ isOnboarded = TRUE
    /\ encryptionKey = key
    /\ salt = IF key.origin = "password" THEN key.salt ELSE NoSalt
    /\ transactions = [id \in {1} |-> Sensitive(Num(1999), "lunch", "")]
    /\ currency = "USD"
    /\ persisted =
         partialize([credentials |-> credentials,
                     encryptionConfig |-> encryptionConfig,
                     isOnboarded |-> isOnboarded,
                     encryptionKey |-> encryptionKey,
                     salt |-> salt,
                     currency |-> currency])
    /\ dbTransactions =
         [id \in {1} |-> dataToInsert(transactions[id], key, 1)]
    /\ dbNextId = 2
    /\ dbCurrency = "USD"
    /\ page = "dashboard"
    /\ pendingCurrency = NoCurrency
    /\ showCurrencyChangeDialog = FALSE
    /\ loading = FALSE
    /\ pageError = NoError
    /\ batches = <<>>
    /\ generatedKey = ""
    /\ keyDownloaded = FALSE
    /\ lastOp = Op("init", NoCurrency, JSNull, NoError, {})
    /\ ivsDrawn = 1
    /\ goals = {}
    /\ dbGoals = {}
    /\ stepsLeft = MaxServiceSteps

\* updateTransaction(id, updates, encryptionKey) with the session key.
callUpdateTransaction ==
  /\ Tick
  /\ UNCHANGED goalVars
  /\ \E id \in DOMAIN dbTransactions, updates \in UpdateInputs,
        selectOk \in BOOLEAN, ok \in BOOLEAN :
       LET encrypts == UpdateEncrypts(updates, encryptionKey)
           hasCurrent == encrypts /\ selectOk
           current == dbTransactions[id]
           body == dataToUpdate(updates, encryptionKey, hasCurrent, current,
                                ivsDrawn + 1)
           reqs == IF encrypts THEN {SelectReq(id)} ELSE {}
           call == [Op("updateTransaction", NoCurrency, JSNull, NoError, reqs)
                      EXCEPT !.id = id, !.data = updates,
                             !.key = encryptionKey]
       IN  /\ ivsDrawn' =
                IF hasCurrent
                   /\ (HasEnvelope(current)
                         => CanDecrypt(current.envelope, encryptionKey))
                  THEN ivsDrawn + 1 ELSE ivsDrawn
           /\ IF hasCurrent /\ HasEnvelope(current)
              /\ ~CanDecrypt(current.envelope, encryptionKey)
             THEN /\ lastOp' = [call EXCEPT !.err = "DecryptionFailed"]
                  /\ UNCHANGED dbTransactions
             ELSE IF ok
               THEN /\ dbTransactions' =
                         [dbTransactions EXCEPT ![id] = ApplyUpdate(@, body)]
                    /\ lastOp' =
                         [call EXCEPT !.reqs = reqs \cup {UpdateReq(id, body)}]
               ELSE /\ lastOp' =
                         [call EXCEPT !.err = "StoreError",
                                      !.reqs = reqs \cup {UpdateReq(id, body)},
                                      !.failed = {UpdateReq(id, body)}]
                    /\ UNCHANGED dbTransactions
  /\ UNCHANGED <<storeVars, persisted, dbNextId, dbCurrency, page, pageVars,
                 convVars, wizardVars>>

\* encrypt(data, key)
callEncrypt ==
  /\ Tick
  /\ UNCHANGED goalVars
  /\ \E data \in PlainInputs, key \in SessionKeys :
       lastOp' = [Op("encrypt", NoCurrency, JSNull, NoError, {})
                    EXCEPT !.data = data, !.key = key,
                           !.sealed = encrypt(data, key, ivsDrawn + 1),
                           !.before = lastOp.sealed]
  /\ ivsDrawn' = ivsDrawn + 1
  /\ UNCHANGED <<storeVars, persisted, dbVars, page, pageVars, convVars,
                 wizardVars>>

\* What reaches decrypt: the envelope as encrypt returned it, or with a
\* bit of the ciphertext or of the iv flipped.
Tamperings == {"none", "ciphertext", "iv"}
Tamper(envelope, how) ==
  CASE how = "ciphertext" -> [envelope EXCEPT !.intact = FALSE]
    [] how = "iv" -> [envelope EXCEPT !.iv = 0 - @]
    [] OTHER -> envelope

\* decrypt(encrypted_data, iv, key) of the envelope encrypt returned:
\* AES-GCM throws an OperationError unless key, iv and ciphertext are
\* those of the encryption.
callDecrypt ==
  /\ Tick
  /\ UNCHANGED <<ivsDrawn, goalVars>>
  /\ lastOp.op = "encrypt"
  /\ \E key \in SessionKeys, how \in Tamperings :
       LET given == Tamper(lastOp.sealed, how)
       IN  lastOp' =
             IF CanDecrypt(given, key)
               THEN [lastOp EXCEPT !.op = "decrypt", !.key = key,
                                   !.text = how,
                                   !.opened = decrypt(given, key)]
               ELSE [lastOp EXCEPT !.op = "decrypt", !.key = key,
                                   !.text = how,
                                   !.err = "DecryptionFailed"]
  /\ UNCHANGED <<storeVars, persisted, dbVars, page, pageVars, convVars,
                 wizardVars>>

\* convertTransactionsCurrency(transactions, conversionRate) on a list of
\* one transaction.
ConvertAmounts == {1999, 201, 25}
ConvertRates == {Num(920), Num(500)}
callConvertTransactionsCurrency ==
  /\ Tick
  /\ UNCHANGED <<ivsDrawn, goalVars>>
  /\ \E amount \in ConvertAmounts, rate \in ConvertRates :
       LET txs == [id \in {1} |-> Sensitive(Num(amount), "lunch", "")]
           result == convertTransactionsCurrency(txs, rate)
       IN  lastOp' =
             [Op("convertTransactionsCurrency", NoCurrency, rate, NoError, {})
                EXCEPT !.batch = Batch(NoCurrency, rate, txs, result,
                                       {}, {}, {}, FALSE)]
  /\ UNCHANGED <<storeVars, persisted, dbVars, page, pageVars, convVars,
                 wizardVars>>

NextService ==
  \/ callUpdateTransaction
  \/ callEncrypt
  \/ callDecrypt
  \/ callConvertTransactionsCurrency

SpecService == InitService /\ [][NextService]_vars

\* ------------------------------------------------------------ properties
\* Encryption is enabled and no key is in memory.
Locked == encryptionConfig.enabled /\ encryptionKey = NoKey
\* The last step completed a convert without error: the rest of
\* handleConvert after Promise.all, or its early return for an empty list.
ConvertCompleted ==
  /\ lastOp.op \in {"handleConvert", "convertFinish"}
  /\ lastOp.err = NoError
  /\ lastOp.batch # NoBatch
  /\ lastOp.batch.pending = {}

\* C1: after any sequence of create, batch-create, update and convert
\* operations every stored transaction row carries either clear sensitive
\* fields or an envelope, never both at once.
C1_RowHoldsOneForm ==
  \A id \in DOMAIN dbTransactions :
    ~(HasClear(dbTransactions[id]) /\ HasEnvelope(dbTransactions[id]))

\* C1 scenario: the store answered a convert update for a row that holds
\* an envelope; the row now holds the converted amount in clear as well.
C1_Witness ==
  /\ lastOp.op = "convertResponse"
  /\ \E id \in DOMAIN dbTransactions :
       /\ HasEnvelope(dbTransactions[id])
       /\ dbTransactions[id].envelope.plain.amount = Num(1999)
       /\ dbTransactions[id].amount = Num(1839)

\* C2: while encryption is enabled, no request of createTransaction,
\* batchCreateTransactions, updateTransaction or the currency convert holds
\* a sensitive field (amount, description, notes) in clear.
C2_NoClearSensitiveWhileEnabled ==
  (/\ encryptionConfig.enabled
   /\ lastOp.op \in {"createTransaction", "bulkImport",
                     "updateTransaction", "handleConvert"})
    => \A r \in lastOp.reqs : r.clear = {}

\* C2 scenario: with the key loaded, the convert sends amounts in clear.
C2_Witness ==
  /\ lastOp.op = "handleConvert"
  /\ encryptionConfig.enabled
  /\ encryptionKey # NoKey
  /\ \E r \in lastOp.reqs : "amount" \in r.clear

C4_LockedFailsFast ==
  (Locked /\ lastOp.op \in
     {"loadData", "createTransaction", "updateTransaction", "bulkImport"})
    => (lastOp.err = KeyNotLoadedMessage /\ lastOp.reqs = {})

\* C4 scenario: while Locked, the transaction form creates a transaction;
\* the store accepts the insert, and the row holds the fields in clear.
C4_Witness ==
  /\ Locked
  /\ lastOp.op = "createTransaction"
  /\ lastOp.err = NoError
  /\ \E r \in lastOp.reqs : r.verb = "insert" /\ r.clear # {}

\* C5: when a convert completes without error the active currency is the
\* new code, and every record's amount read back from the store (with the
\* session key) is round(original amount * rate, 2), for any number of
\* records including zero.
C5_ConvertRewritesStoredAmounts ==
  ConvertCompleted =>
    /\ currency = lastOp.batch.newCurrency
    /\ \A id \in DOMAIN lastOp.batch.original \cap DOMAIN dbTransactions :
         ~FetchThrows(dbTransactions, encryptionKey)
           => fetchTransactions(dbTransactions, encryptionKey)[id].amount =
                convertAmount(lastOp.batch.original[id].amount,
                              lastOp.batch.rate)

\* C5 scenario: a convert at rate 0.92 completed in an unlocked session;
\* the store shows 18.39 in memory, and reading the record back with the
\* session key gives 19.99.
C5_Witness ==
  /\ lastOp.op = "convertFinish"
  /\ ConvertCompleted
  /\ lastOp.rate = Num(920)
  /\ encryptionKey # NoKey
  /\ currency = lastOp.batch.newCurrency
  /\ ~FetchThrows(dbTransactions, encryptionKey)
  /\ \E id \in DOMAIN lastOp.batch.original \cap DOMAIN dbTransactions :
       /\ lastOp.batch.original[id].amount = Num(1999)
       /\ transactions[id].amount = Num(1839)
       /\ fetchTransactions(dbTransactions, encryptionKey)[id].amount =
            Num(1999)

\* C6: when a per-record update of a convert failed, the convert reports
\* failure together with the number of records rewritten and the number not
\* rewritten, and the records already written keep the rewritten amount.
C6_PartialRewriteFailureCounts ==
  (lastOp.op = "convertFinish" /\ lastOp.batch.failed # {})
    => /\ lastOp.err # NoError
       /\ lastOp.counts = <<Cardinality(lastOp.batch.written),
                            Cardinality(lastOp.batch.failed)>>
       /\ \A id \in lastOp.batch.written \cap DOMAIN dbTransactions :
            dbTransactions[id].amount =
              ToJSON(lastOp.batch.converted[id].amount)

\* C6 scenario: one update of the batch was written and one failed; the
\* error holds a message and no counts, and the written row keeps the
\* converted amount.
C6_Witness ==
  /\ lastOp.op = "convertFinish"
  /\ lastOp.batch.written # {}
  /\ lastOp.batch.failed # {}
  /\ lastOp.err = ConvertFailedMessage
  /\ lastOp.counts = <<>>
  /\ \A id \in lastOp.batch.written :
       /\ id \in DOMAIN dbTransactions
       /\ dbTransactions[id].amount =
            ToJSON(lastOp.batch.converted[id].amount)

\* C7: a convert with a rate that is zero, negative, NaN or infinite is
\* rejected with the invalid-rate error before any request is sent, and
\* the stored amounts, the in-memory amounts and the currency keep their
\* values.
C7_InvalidRateRejected ==
  [][(/\ lastOp'.op = "handleConvert"
      /\ (lastOp'.rate.k # "num" \/ lastOp'.rate.v <= 0))
       => /\ lastOp'.err = InvalidRateMessage
          /\ lastOp'.reqs = {}
          /\ batches' = batches
          /\ UNCHANGED <<dbTransactions, transactions, currency>>]_vars

\* C7 scenario: a convert at an infinite rate ran to completion; the
\* currency changed and the stored amount column holds null.
C7_Witness ==
  /\ lastOp.op = "convertFinish"
  /\ lastOp.rate = JSInfinity
  /\ lastOp.err = NoError
  /\ currency = lastOp.batch.newCurrency
  /\ \E id \in DOMAIN transactions \cap DOMAIN dbTransactions :
       /\ transactions[id].amount = JSInfinity
       /\ dbTransactions[id].amount = JSNull
       /\ ~HasEnvelope(dbTransactions[id])

\* C8: keepAsIs sends no request that touches the transactions table and
\* changes no in-memory transaction and no stored row; of the store and
\* the remote data it changes only the currency label.
C8_KeepAsIsLeavesAmounts ==
  [][lastOp'.op = "keepAsIs"
       => /\ \A r \in lastOp'.reqs :
               r.table # "transactions" /\ "amount" \notin r.clear
          /\ UNCHANGED <<transactions, dbTransactions, dbNextId, batches,
                         credentials, encryptionConfig, isOnboarded,
                         encryptionKey, salt>>]_vars

\* C8 witness: keepAsIs has run for a user with transactions and the
\* currency label is the one chosen.
C8_Witness ==
  /\ lastOp.op = "keepAsIs"
  /\ lastOp.err = NoError
  /\ currency = lastOp.cur
  /\ DOMAIN transactions # {}
  /\ DOMAIN dbTransactions # {}

\* C9: when the user has at least one transaction (the remote table holds
\* a row), selecting a different
\* currency leaves the active currency as it is and opens the dialog, and
\* cancelling the dialog changes neither the currency nor any amount.
C9_SelectionAsksFirst ==
  [][/\ (/\ lastOp'.op = "handleCurrencySelection"
         /\ lastOp'.cur # currency
         /\ Cardinality(DOMAIN dbTransactions) > 0)
        => (currency' = currency /\ DialogOpen')
     /\ lastOp'.op = "dialogCancel"
        => UNCHANGED <<currency, transactions, dbTransactions>>]_vars

\* C10: when the user has zero transactions (the remote table holds no
\* row), selecting a different currency makes it the active currency in
\* that step, and no dialog opens.
C10_SelectionImmediateWhenEmpty ==
  [][(/\ lastOp'.op = "handleCurrencySelection"
      /\ lastOp'.cur # currency
      /\ Cardinality(DOMAIN dbTransactions) = 0)
       => (currency' = lastOp'.cur /\ ~DialogOpen')]_vars

\* C11: when a store update issued during a currency change fails (an
\* update of a transaction or of user_settings, on the keep-as-is path or
\* on the convert path), an error is displayed and the active currency is
\* not changed.
C11_FailedUpdateKeepsCurrency ==
  [][(/\ lastOp'.op \in {"keepAsIs", "convertFinish"}
      /\ lastOp'.failed # {})
       => (pageError' # NoError /\ currency' = currency)]_vars
\* The user_settings update of a convert failed, no error is shown and the
\* active currency is the new one.
C11_Witness ==
  /\ lastOp.op = "convertFinish"
  /\ lastOp.failed = {SettingsReq}
  /\ lastOp.batch.written # {}
  /\ pageError = NoError
  /\ currency = lastOp.batch.newCurrency
  /\ currency # dbCurrency

\* C12: in random-key mode the key the user downloaded during onboarding
\* is the key that encrypts their data: when onboarding completes, the key
\* imported from the downloaded text is the session key, which encrypts
\* every record the session writes.
C12_DownloadedKeyIsSessionKey ==
  [][(/\ lastOp'.op = "handleComplete"
      /\ lastOp'.err = NoError
      /\ encryptionConfig'.type = "random_key")
       => importKey(generatedKey) = encryptionKey']_vars

\* C13: with master-password encryption, setting the app up again (on
\* another device, or after logout) with the same master password gives a
\* key that decrypts the data encrypted under the original setup.
C13_SamePasswordDecrypts ==
  (/\ lastOp.op = "handleComplete"
   /\ lastOp.err = NoError
   /\ encryptionConfig.type = "password")
    => \A id \in DOMAIN dbTransactions :
         (/\ HasEnvelope(dbTransactions[id])
          /\ dbTransactions[id].envelope.key.origin = "password"
          /\ dbTransactions[id].envelope.key.secret = encryptionKey.secret)
           => CanDecrypt(dbTransactions[id].envelope, encryptionKey)
\* A second setup with the password of the first holds a key under which a
\* record of the first setup does not decrypt.
C13_Witness ==
  /\ lastOp.op = "handleComplete"
  /\ encryptionConfig.type = "password"
  /\ \E id \in DOMAIN dbTransactions :
       /\ HasEnvelope(dbTransactions[id])
       /\ dbTransactions[id].envelope.key.secret = encryptionKey.secret
       /\ dbTransactions[id].envelope.key.salt # encryptionKey.salt
       /\ FetchThrows(dbTransactions, encryptionKey)

\* C14: after an unlock with a wrong password or key, the first load of
\* the stored ciphertext fails with DecryptionFailed and the session is
\* Locked again (no key is held), so that the unlock dialog is offered
\* once more.
C14_WrongUnlockStaysLocked ==
  (lastOp.op = "loadData" /\ lastOp.err = "DecryptionFailed")
    => (encryptionKey = NoKey /\ UnlockIsOpen)
\* The load failed on a record of this setup (same salt) because the
\* password typed at the unlock was wrong, and the wrong key is still held.
C14_Witness ==
  /\ lastOp.op = "loadData"
  /\ lastOp.err = "DecryptionFailed"
  /\ encryptionKey.origin = "password"
  /\ ~UnlockIsOpen
  /\ \E id \in DOMAIN dbTransactions :
       /\ HasEnvelope(dbTransactions[id])
       /\ dbTransactions[id].envelope.key.salt = encryptionKey.salt
       /\ dbTransactions[id].envelope.key.secret # encryptionKey.secret

\* C15: explicit logout takes the session from Unlocked to Locked:
\* encryption is still enabled, no key is in memory, and the key is not
\* persisted.
C15_LogoutLocks ==
  [][(/\ lastOp'.op = "handleLogout"
      /\ encryptionConfig.enabled
      /\ encryptionKey # NoKey)
       => (/\ encryptionConfig'.enabled
           /\ encryptionKey' = NoKey
           /\ "encryptionKey" \notin DOMAIN persisted')]_vars
\* After the logout of an unlocked session that wrote a record, the key is
\* gone and so is the encryption configuration, in memory and persisted.
C15_Witness ==
  /\ lastOp.op = "handleLogout"
  /\ encryptionKey = NoKey
  /\ encryptionConfig = NullConfig
  /\ persisted.encryptionConfig = NullConfig
  /\ \E id \in DOMAIN dbTransactions : HasEnvelope(dbTransactions[id])

\* C16: every fresh session (a page load that rehydrates the persisted
\* configuration) with encryption enabled starts Locked, and the key stays
\* null until an unlock succeeds.
C16_FreshSessionStartsLocked ==
  [][/\ (lastOp'.op = "newSession" /\ encryptionConfig'.enabled)
          => encryptionKey' = NoKey
     /\ (encryptionConfig.enabled /\ encryptionKey = NoKey
           /\ encryptionKey' # NoKey)
          => (lastOp'.op = "handleUnlock" /\ lastOp'.err = NoError)]_vars
\* A page load of a set-up installation: encryption enabled, no key.
C16_Witness ==
  /\ lastOp.op = "newSession"
  /\ persisted.encryptionConfig.enabled
  /\ encryptionConfig.enabled
  /\ encryptionKey = NoKey
  /\ \E id \in DOMAIN dbTransactions : HasEnvelope(dbTransactions[id])

\* C17: once a password-derived key has been set up, no operation changes
\* or removes the persisted salt while data encrypted under that key
\* exists, so every later derivation uses the salt generated at setup.
C17_SaltKeptWhileDataExists ==
  [][(\E id \in DOMAIN dbTransactions :
        /\ HasEnvelope(dbTransactions[id])
        /\ dbTransactions[id].envelope.key.origin = "password"
        /\ dbTransactions[id].envelope.key.salt = persisted.salt)
       => persisted'.salt = persisted.salt]_vars
\* The persisted salt is gone, or is another one, while the remote table
\* holds a record encrypted under a key derived with the salt of the setup.
C17_Witness ==
  /\ lastOp.op \in {"handleLogout", "handleComplete"}
  /\ \E id \in DOMAIN dbTransactions :
       /\ HasEnvelope(dbTransactions[id])
       /\ dbTransactions[id].envelope.key.origin = "password"
       /\ dbTransactions[id].envelope.key.salt # persisted.salt

\* C18: importing a key text that does not decode to exactly 32 bytes
\* fails (InvalidKeyFormat), and the session key is left unchanged: the
\* session stays Locked.
C18_InvalidKeyTextRejected ==
  [][(/\ lastOp'.op = "handleUnlock"
      /\ encryptionConfig.type = "random_key"
      /\ DecodedLength(lastOp'.text) # 32)
       => (/\ lastOp'.err # NoError
           /\ encryptionKey' = encryptionKey
           /\ encryptionKey' = NoKey)]_vars
\* A key text of 16 bytes was imported and is the session key.
C18_Witness ==
  /\ lastOp.op = "handleUnlock"
  /\ lastOp.err = NoError
  /\ DecodedLength(lastOp.text) = 16
  /\ encryptionKey = importKey(lastOp.text)
  /\ ~UnlockIsOpen

\* C19: updateTransaction with a key on an encrypted record, given only
\* some of the sensitive fields, stores a new envelope whose decryption
\* holds the new value of every field given and the previous value of
\* every field not given.
C19_UpdateReencryptsWholeSubset ==
  [][(/\ lastOp'.op = "updateTransaction"
      /\ lastOp'.err = NoError
      /\ lastOp'.key # NoKey
      /\ lastOp'.id \in DOMAIN dbTransactions
      /\ HasEnvelope(dbTransactions[lastOp'.id])
      /\ lastOp'.data # NothingGiven)
       => LET updates == lastOp'.data
              key == lastOp'.key
              before == decrypt(dbTransactions[lastOp'.id].envelope, key)
              after == dbTransactions'[lastOp'.id]
          IN  /\ HasEnvelope(after)
              /\ CanDecrypt(after.envelope, key)
              /\ decrypt(after.envelope, key) =
                   Sensitive(IF updates.amount = JSUndefined
                               THEN before.amount ELSE updates.amount,
                             IF updates.description = UndefText
                               THEN before.description
                               ELSE updates.description,
                             IF updates.notes = UndefText
                               THEN before.notes ELSE updates.notes)]_vars
\* An update that gave only an empty description was accepted: the
\* envelope still holds the previous description, the clear column the
\* new one.
C19_Witness ==
  /\ lastOp.op = "updateTransaction"
  /\ lastOp.err = NoError
  /\ lastOp.data = Sensitive(JSUndefined, "", UndefText)
  /\ lastOp.id \in DOMAIN dbTransactions
  /\ HasEnvelope(dbTransactions[lastOp.id])
  /\ decrypt(dbTransactions[lastOp.id].envelope, lastOp.key).description =
       "lunch"
  /\ dbTransactions[lastOp.id].description = ""

C23_ConvertRoundsHalfAway ==
  [][lastOp'.op = "convertTransactionsCurrency"
       => LET given == lastOp'.batch.original
              result == lastOp'.batch.converted
          IN  /\ DOMAIN result = DOMAIN given
              /\ \A id \in DOMAIN given :
                   LET n == given[id].amount.v * lastOp'.rate.v
                       rounded == IF n >= 0 THEN (n + 500) \div 1000
                                  ELSE 0 - ((500 - n) \div 1000)
                   IN  result[id] = [given[id] EXCEPT !.amount = Num(rounded)]
              /\ lastOp'.reqs = {}
              /\ dbTransactions' = dbTransactions
              /\ dbCurrency' = dbCurrency]_vars
\* 2.01 at rate 0.5 came out as 1.00.
C23_Witness ==
  /\ lastOp.op = "convertTransactionsCurrency"
  /\ lastOp.rate = Num(500)
  /\ lastOp.batch.original[1].amount = Num(201)
  /\ lastOp.batch.converted[1].amount = Num(100)

\* C24: after a successful update of an encrypted transaction through the
\* modal, the in-memory record equals the merged plaintext, that is, what
\* fetchTransactions with the session key returns for that record.
C24_UpdatedRecordIsMergedPlaintext ==
  (/\ lastOp.op = "updateTransaction"
   /\ lastOp.err = NoError
   /\ lastOp.id \in DOMAIN dbTransactions \cap DOMAIN transactions
   /\ HasEnvelope(dbTransactions[lastOp.id])
   /\ ~FetchThrows(dbTransactions, encryptionKey))
    => transactions[lastOp.id] =
         fetchTransactions(dbTransactions, encryptionKey)[lastOp.id]
\* The update of an encrypted record succeeded and the in-memory record
\* has no amount, while its envelope holds the edited amount.
C24_Witness ==
  /\ lastOp.op = "updateTransaction"
  /\ lastOp.err = NoError
  /\ lastOp.id \in DOMAIN dbTransactions \cap DOMAIN transactions
  /\ HasEnvelope(dbTransactions[lastOp.id])
  /\ CanDecrypt(dbTransactions[lastOp.id].envelope, encryptionKey)
  /\ decrypt(dbTransactions[lastOp.id].envelope, encryptionKey).amount
       = Num(1500)
  /\ transactions[lastOp.id].amount = JSNull

\* C25: completing a convert keeps what was added to or deleted from the
\* in-memory list while the batch was in flight: the step that completes
\* the batch changes amounts only, and neither drops nor restores a record.
C25_ConvertKeepsConcurrentChanges ==
  [][(/\ lastOp'.op = "convertFinish"
      /\ lastOp'.err = NoError
      /\ Len(batches') < Len(batches))
       => /\ DOMAIN transactions' = DOMAIN transactions
          /\ \A id \in DOMAIN transactions :
               /\ transactions'[id].description = transactions[id].description
               /\ transactions'[id].notes = transactions[id].notes]_vars
\* The convert completed, the in-memory list is the converted snapshot, and
\* a record created after the snapshot was taken is in the store only.
C25_Witness ==
  /\ lastOp.op = "convertFinish"
  /\ lastOp.err = NoError
  /\ transactions = lastOp.batch.converted
  /\ \E id \in DOMAIN dbTransactions \ DOMAIN transactions :
       \A other \in DOMAIN lastOp.batch.original : id > other

\* C26: through the settings page at most one convert is in flight at any
\* time, also after leaving the settings page and coming back.
C26_OneConvertInFlight == Len(batches) <= 1
\* Two batches have requests pending: one started by a page instance that
\* was left, one by the instance mounted now.
C26_Witness ==
  /\ Len(batches) = 2
  /\ batches[1].pending # {}
  /\ batches[2].pending # {}
  /\ ~batches[1].mounted
  /\ batches[2].mounted
  /\ page = "settings"

\* C27: a convert changes the currency code and the in-memory amounts only
\* after every update request of its batch was answered with success, and
\* while a batch in flight has a request pending or failed, the local
\* currency code stays what it is.
C27_CurrencyChangesAfterAllWritten ==
  [][/\ (/\ lastOp'.op = "convertFinish"
         /\ Len(batches') < Len(batches)
         /\ (currency' # currency \/ transactions' # transactions))
          => /\ lastOp'.batch.pending = {}
             /\ lastOp'.batch.failed = {}
             /\ lastOp'.batch.written = DOMAIN lastOp'.batch.original
     /\ (\E b \in DOMAIN batches :
           batches[b].pending # {} \/ batches[b].failed # {})
          => currency' = currency]_vars
\* A batch still has a request pending and the local currency code is
\* already the one of a later currency change.
C27_Witness ==
  /\ Len(batches) >= 1
  /\ batches[1].pending # {}
  /\ ~batches[1].mounted
  /\ currency # "USD"
  /\ lastOp.op = "keepAsIs"
  /\ lastOp.err = NoError
  /\ lastOp.cur = currency

\* C28: the record count a currency selection decides on is the number of
\* transactions in the remote store, so the selection never changes the
\* currency code on the spot while the store holds a transaction, a fresh
\* session with an unloaded in-memory list included.
C28_ImmediatePathOnlyOnEmptyStore ==
  [][(lastOp'.op = "handleCurrencySelection" /\ lastOp'.cur # currency)
       => /\ Cardinality(DOMAIN transactions)
               = Cardinality(DOMAIN dbTransactions)
          /\ currency' # currency => DOMAIN dbTransactions = {}]_vars
\* A selection in a session that has not loaded its list: the code is the
\* selected one, no dialog is open, and the store holds transactions.
C28_Witness ==
  /\ lastOp.op = "handleCurrencySelection"
  /\ lastOp.cur = currency
  /\ currency # dbCurrency
  /\ ~DialogOpen
  /\ batches = <<>>
  /\ DOMAIN transactions = {}
  /\ DOMAIN dbTransactions # {}

\* C29: at any time all envelopes in the store are encrypted under one key,
\* the one established at setup, whatever setups, unlock attempts and
\* record writes came before.
C29_OneKeyForAllEnvelopes ==
  \A id \in DOMAIN dbTransactions, other \in DOMAIN dbTransactions :
    (HasEnvelope(dbTransactions[id]) /\ HasEnvelope(dbTransactions[other]))
      => dbTransactions[id].envelope.key = dbTransactions[other].envelope.key
\* Two stored envelopes under keys derived from two passwords with one
\* salt; the session key is the key of one of them only.
C29_Witness ==
  \E id \in DOMAIN dbTransactions, other \in DOMAIN dbTransactions :
    /\ HasEnvelope(dbTransactions[id])
    /\ HasEnvelope(dbTransactions[other])
    /\ dbTransactions[id].envelope.key.origin = "password"
    /\ dbTransactions[other].envelope.key.origin = "password"
    /\ dbTransactions[id].envelope.key.salt
         = dbTransactions[other].envelope.key.salt
    /\ dbTransactions[id].envelope.key.secret
         # dbTransactions[other].envelope.key.secret
    /\ encryptionKey = dbTransactions[other].envelope.key
    /\ salt = encryptionKey.salt

\* C30: wipe-all-data reports success and empties the in-memory
\* transactions and goals only if both remote deletions succeeded; if
\* either failed, an error is reported and the in-memory lists are as they
\* were.
C30_WipeReportsFailedDeletion ==
  [][(lastOp'.op = "handleDatabaseWipe" /\ stepsLeft' # stepsLeft)
       => /\ lastOp'.err = NoError => lastOp'.failed = {}
          /\ lastOp'.failed # {}
               => /\ pageError' # NoError
                  /\ transactions' = transactions
                  /\ goals' = goals]_vars
\* The deletion of the transactions failed: no error is shown, the
\* in-memory lists are empty and the store still holds the transactions.
C30_Witness ==
  /\ lastOp.op = "handleDatabaseWipe"
  /\ WipeTransactionsReq \in lastOp.failed
  /\ lastOp.err = NoError
  /\ pageError = NoError
  /\ transactions = <<>>
  /\ goals = {}
  /\ DOMAIN dbTransactions # {}
====
